---- MODULE Spec2Model ----
(***************************************************************************)
(* Model of the MGNREGA dashboard (App.jsx): the fetch + aggregate cycle   *)
(* (fetchData), the numeric normalizer (toNumber), the startup location    *)
(* detection (detectLocation) and the filter controls that start cycles.   *)
(*                                                                         *)
(* Text is modelled as a sequence of one-character strings, so that        *)
(* trim, toUpperCase, replace and includes are computed, not assumed.      *)
(***************************************************************************)
EXTENDS Integers, Sequences, FiniteSets, TLC

(***************************************************************************)
(* Bounds of the model (not program constants).                            *)
(***************************************************************************)
\* cycles started in one behaviour
MaxCycles == 3
\* edits of the district input in one behaviour
MaxKeys == 2
\* rows in one answer of a backend that answers any rows
MaxLen == 3
\* characters of a text handed to toNumber
MaxText == 3

(***************************************************************************)
(* Text helpers: JavaScript String methods on character sequences.         *)
(***************************************************************************)
LowerChars ==
  <<"a","b","c","d","e","f","g","h","i","j","k","l","m",
    "n","o","p","q","r","s","t","u","v","w","x","y","z">>

UpperChars ==
  <<"A","B","C","D","E","F","G","H","I","J","K","L","M",
    "N","O","P","Q","R","S","T","U","V","W","X","Y","Z">>

ToUpperChar(c) ==
  IF \E i \in 1..26 : LowerChars[i] = c
    THEN UpperChars[CHOOSE i \in 1..26 : LowerChars[i] = c]
    ELSE c

RECURSIVE toUpperCase(_)
toUpperCase(s) ==
  IF s = <<>> THEN <<>> ELSE <<ToUpperChar(Head(s))>> \o toUpperCase(Tail(s))

RECURSIVE TrimStart(_)
TrimStart(s) ==
  IF s # <<>> /\ Head(s) = " " THEN TrimStart(Tail(s)) ELSE s

RECURSIVE TrimEnd(_)
TrimEnd(s) ==
  IF s # <<>> /\ s[Len(s)] = " " THEN TrimEnd(SubSeq(s, 1, Len(s) - 1)) ELSE s

trim(s) == TrimEnd(TrimStart(s))

\* String.prototype.includes
includes(s, sub) ==
  \E i \in 0..(Len(s) - Len(sub)) : SubSeq(s, i + 1, i + Len(sub)) = sub

\* s.startsWith(pat), ignoring case (the "i" flag of a regular expression)
StartsWithI(s, pat) ==
  /\ Len(s) >= Len(pat)
  /\ toUpperCase(SubSeq(s, 1, Len(pat))) = toUpperCase(pat)

\* s.replace(/p1|p2|.../gi, ""): leftmost match, alternatives tried in order
RECURSIVE ReplaceAllI(_, _)
ReplaceAllI(s, pats) ==
  IF s = <<>> THEN <<>>
  ELSE IF \E k \in 1..Len(pats) : StartsWithI(s, pats[k])
    THEN LET k == CHOOSE j \in 1..Len(pats) :
                    /\ StartsWithI(s, pats[j])
                    /\ \A h \in 1..(j - 1) : ~StartsWithI(s, pats[h])
         IN ReplaceAllI(SubSeq(s, Len(pats[k]) + 1, Len(s)), pats)
    ELSE <<Head(s)>> \o ReplaceAllI(Tail(s), pats)

(***************************************************************************)
(* JSON values of a raw row's field: null, absent, a number or a string.   *)
(***************************************************************************)
\* The numbers of the program are IEEE 754 doubles.  Every integer below 2^53
\* in magnitude is one, and the model writes it as itself; it writes the
\* integer b * 2^53 + v, for b >= 1 and 0 <= v < TwoTo53, as b * TwoTo53 + v,
\* so that TwoTo53 stands for 2^53, the first integer whose successor is not
\* a double.  The order of the integers is the order of what they stand for.
TwoTo53 == 1048576

\* the distance between neighbouring doubles from b * 2^53 on
RECURSIVE UlpAt(_)
UlpAt(b) == IF b < 2 THEN 2 ELSE 2 * UlpAt(b \div 2)

\* v rounded to a multiple of u, a tie to the even multiple
RoundTiesToEven(v, u) ==
  LET q == v \div u
      r == v % u
  IN IF 2 * r < u THEN q * u
     ELSE IF 2 * r > u THEN (q + 1) * u
     ELSE IF q % 2 = 0 THEN q * u ELSE (q + 1) * u

\* a + b on numbers that are not NaN: the exact sum, rounded to the nearest
\* double
Plus(a, b) ==
  LET sum == a + b
  IN IF sum < TwoTo53 THEN sum
     ELSE (sum \div TwoTo53) * TwoTo53
            + RoundTiesToEven(sum % TwoTo53, UlpAt(sum \div TwoTo53))

\* a value of type number: an integer, or NaN
Num(k) == [nan |-> FALSE, v |-> k]
NaN == [nan |-> TRUE, v |-> 0]

isNaN(n) == n.nan

\* the integer of a number that is not NaN
IntOf(n) == n.v

JNull == [t |-> "null", n |-> Num(0), s |-> <<>>]
JUndefined == [t |-> "undefined", n |-> Num(0), s |-> <<>>]
JNum(k) == [t |-> "number", n |-> Num(k), s |-> <<>>]
JStr(str) == [t |-> "string", n |-> Num(0), s |-> str]

\* the value NaN, of type number; JSON.parse never yields it
JNaN == [t |-> "number", n |-> NaN, s |-> <<>>]

Digits == <<"0","1","2","3","4","5","6","7","8","9">>

IsDigit(c) == \E i \in 1..10 : Digits[i] = c

DigitVal(c) == (CHOOSE i \in 1..10 : Digits[i] = c) - 1

RECURSIVE DecimalValue(_)
DecimalValue(s) ==
  IF s = <<>> THEN 0
  ELSE 10 * DecimalValue(SubSeq(s, 1, Len(s) - 1)) + DigitVal(s[Len(s)])

\* Number(text) on integer literals.  The empty (or all-blank) text converts
\* to 0, an optional sign is accepted, anything else is NaN.
Number(text) ==
  LET t == trim(text)
      body == IF t # <<>> /\ Head(t) \in {"-", "+"} THEN Tail(t) ELSE t
      signed == t # <<>> /\ Head(t) \in {"-", "+"}
  IN IF t = <<>> THEN Num(0)
     ELSE IF body # <<>> /\ \A i \in 1..Len(body) : IsDigit(body[i])
       THEN Num(IF signed /\ Head(t) = "-" THEN 0 - DecimalValue(body)
                ELSE DecimalValue(body))
       ELSE NaN

\* String(v).replace(/,/g, "")
RECURSIVE RemoveCommas(_)
RemoveCommas(s) ==
  IF s = <<>> THEN <<>>
  ELSE IF Head(s) = "," THEN RemoveCommas(Tail(s))
  ELSE <<Head(s)>> \o RemoveCommas(Tail(s))

toNumber(v) ==
  IF v.t \in {"null", "undefined"} THEN Num(0)
  ELSE IF v.t = "number" THEN v.n
  ELSE LET cleaned == trim(RemoveCommas(v.s))
           n == Number(cleaned)
       IN IF isNaN(n) THEN Num(0) ELSE n

(***************************************************************************)
(* The aggregation pipeline of fetchData: normalize, drop rows without a   *)
(* district, group by district key, filter, sort.                          *)
(***************************************************************************)
\* the seven numeric measures of a row
Measures ==
  {"Approved_Labour_Budget",
   "Average_Wage_rate_per_day_per_person",
   "Average_days_of_employment_provided_per_Household",
   "Total_Households_Worked",
   "Total_Individuals_Worked",
   "Total_Exp",
   "Wages"}

\* the placeholder of a missing fin_year or month (an em dash in the source)
Dash == <<"-">>

\* a || b on texts: the empty text is falsy
OrElse(a, b) == IF a # <<>> THEN a ELSE b

\* the callback of allRows.map: one NormalizedRecord per raw row.  The rows
\* come from res.json(), so no field of a row is NaN and every measure is an
\* integer.
normalize(r, stateName) ==
  LET district_raw == OrElse(r.district_name, OrElse(r.District, <<>>))
      district_clean == trim(district_raw)
  IN [district_name |-> toUpperCase(district_clean),
      district_display |-> district_clean,
      state_name |-> OrElse(r.state_name, stateName),
      fin_year |-> OrElse(r.fin_year, Dash),
      month |-> OrElse(r.month, Dash),
      Approved_Labour_Budget |-> IntOf(toNumber(r.Approved_Labour_Budget)),
      Average_Wage_rate_per_day_per_person |->
        IntOf(toNumber(r.Average_Wage_rate_per_day_per_person)),
      Average_days_of_employment_provided_per_Household |->
        IntOf(toNumber(r.Average_days_of_employment_provided_per_Household)),
      Total_Households_Worked |-> IntOf(toNumber(r.Total_Households_Worked)),
      Total_Individuals_Worked |-> IntOf(toNumber(r.Total_Individuals_Worked)),
      Total_Exp |-> IntOf(toNumber(r.Total_Exp)),
      Wages |-> IntOf(toNumber(r.Wages))]

normalized(allRows, stateName) ==
  [i \in 1..Len(allRows) |-> normalize(allRows[i], stateName)]

\* normalized.filter(x => x.district_name && x.district_name.length > 0)
RECURSIVE filtered(_)
filtered(rows) ==
  IF rows = <<>> THEN <<>>
  ELSE IF Head(rows).district_name # <<>> /\ Len(Head(rows).district_name) > 0
    THEN <<Head(rows)>> \o filtered(Tail(rows))
    ELSE filtered(Tail(rows))

\* a variant that assigns the wages of the later row instead of adding them
AddMeasuresAssignWages(agg, cur) ==
  [f \in DOMAIN agg |->
     IF f = "Wages" THEN cur[f]
     ELSE IF f \in Measures THEN Plus(agg[f], cur[f]) ELSE agg[f]]

\* the else branch of the reducer: add the seven measures of cur into acc[key]
AddMeasures(agg, cur) ==
  [f \in DOMAIN agg |-> IF f \in Measures THEN Plus(agg[f], cur[f]) ELSE agg[f]]

\* a variant whose else branch keeps the later row instead of adding it
GroupStepOverwrite(acc, cur) ==
  IF \E i \in 1..Len(acc) : acc[i].district_name = cur.district_name
    THEN LET i == CHOOSE j \in 1..Len(acc) :
                    acc[j].district_name = cur.district_name
         IN [acc EXCEPT ![i] = cur]
    ELSE Append(acc, cur)

\* the reducer of filtered.reduce; acc keeps the keys in insertion order, the
\* order Object.values returns them in
GroupStep(acc, cur) ==
  IF \E i \in 1..Len(acc) : acc[i].district_name = cur.district_name
    THEN LET i == CHOOSE j \in 1..Len(acc) :
                    acc[j].district_name = cur.district_name
         IN [acc EXCEPT ![i] = AddMeasures(acc[i], cur)]
    ELSE Append(acc, cur)

RECURSIVE Reduce(_, _)
Reduce(acc, rows) ==
  IF rows = <<>> THEN acc ELSE Reduce(GroupStep(acc, Head(rows)), Tail(rows))

\* Object.values(filtered.reduce(..., {}))
grouped(rows) == Reduce(<<>>, rows)

\* the visible district filter: it reads districtFilter, the state value the
\* closure of fetchData captured, not districtOverride
RECURSIVE KeepIncluding(_, _)
KeepIncluding(aggs, df) ==
  IF aggs = <<>> THEN <<>>
  ELSE IF includes(Head(aggs).district_name, df)
    THEN <<Head(aggs)>> \o KeepIncluding(Tail(aggs), df)
    ELSE KeepIncluding(Tail(aggs), df)

ApplyDistrictFilter(aggs, districtFilter) ==
  IF districtFilter # <<>> /\ Len(trim(districtFilter)) > 0
    THEN KeepIncluding(aggs, toUpperCase(trim(districtFilter)))
    ELSE aggs

\* finalArray.sort((a, b) => b.Total_Exp - a.Total_Exp): a stable sort
RECURSIVE InsertDesc(_, _)
InsertDesc(sorted, x) ==
  IF sorted = <<>> THEN <<x>>
  ELSE IF Head(sorted).Total_Exp >= x.Total_Exp
    THEN <<Head(sorted)>> \o InsertDesc(Tail(sorted), x)
    ELSE <<x>> \o sorted

RECURSIVE SortFrom(_, _)
SortFrom(sorted, rest) ==
  IF rest = <<>> THEN sorted ELSE SortFrom(InsertDesc(sorted, Head(rest)), Tail(rest))

\* a variant that leaves the grouping order
sortSkipped(aggs) == aggs

sortByTotalExp(aggs) == SortFrom(<<>>, aggs)

\* finalArray as handed to setData
finalArray(allRows, stateName, districtFilter) ==
  sortByTotalExp(
    ApplyDistrictFilter(grouped(filtered(normalized(allRows, stateName))),
                        districtFilter))

(***************************************************************************)
(* Insights, computed from finalArray at the end of fetchData.             *)
(***************************************************************************)
NotAvailable == <<"N","/","A">>

\* aggs.reduce((s, x) => s + x[f], start)
RECURSIVE SumFrom(_, _, _)
SumFrom(start, aggs, f) ==
  IF aggs = <<>> THEN start
  ELSE SumFrom(Plus(start, Head(aggs)[f]), Tail(aggs), f)

SumOf(aggs, f) == SumFrom(0, aggs, f)

\* a variant that truncates: Math.floor(a / b)
FloorDiv(a, b) == a \div b

\* Math.round(a / b) for b > 0: halves round towards plus infinity
RoundDiv(a, b) == (2 * a + b) \div (2 * b)

computeInsights(aggs) ==
  LET totalHouseholds == SumOf(aggs, "Total_Households_Worked")
      totalExp == SumOf(aggs, "Total_Exp")
  IN [totalHouseholds |-> totalHouseholds,
      totalPersondays |-> 0,
      totalExpenditure |-> totalExp,
      avgHouseholds |-> IF Len(aggs) # 0 THEN RoundDiv(totalHouseholds, Len(aggs))
                        ELSE 0,
      topDistrict |-> IF Len(aggs) # 0 THEN aggs[1].district_display
                      ELSE NotAvailable,
      lowDistrict |-> IF Len(aggs) # 0 THEN aggs[Len(aggs)].district_display
                      ELSE NotAvailable]

\* useState initial value of insights
InitialInsights ==
  [totalHouseholds |-> 0,
   totalPersondays |-> 0,
   totalExpenditure |-> 0,
   avgHouseholds |-> 0,
   topDistrict |-> NotAvailable,
   lowDistrict |-> NotAvailable]

(***************************************************************************)
(* Program constants and the initial values of the React state.            *)
(***************************************************************************)
YEARS ==
  <<"All", "2024-2025", "2023-2024", "2022-2023", "2021-2022",
    "2020-2021", "2019-2020", "2018-2019">>

\* YEARS.filter(y => y !== "All")
yearsToFetch == SelectSeq(YEARS, LAMBDA y : y # "All")

TamilNadu == <<"T","A","M","I","L"," ","N","A","D","U">>

InitialYear == "All"
InitialStateName == TamilNadu
InitialDistrictFilter == <<>>

(***************************************************************************)
(* Inputs of the model: what the remote API, the reverse geocoder and the  *)
(* user may supply.                                                        *)
(***************************************************************************)
Row(dn, dist, fy, exp, hh) ==
  [district_name |-> dn,
   District |-> dist,
   state_name |-> <<>>,
   fin_year |-> fy,
   month |-> <<>>,
   Approved_Labour_Budget |-> JNull,
   Average_Wage_rate_per_day_per_person |-> JUndefined,
   Average_days_of_employment_provided_per_Household |-> hh,
   Total_Households_Worked |-> hh,
   Total_Individuals_Worked |-> exp,
   Total_Exp |-> exp,
   Wages |-> exp]

Chen == <<"C","h","e","n">>
ChenLower == <<"c","h","e","n"," ">>
Sal == <<"S","a","l">>

\* rows a backend may hold: a comma-grouped amount, a district in another
\* case and with a trailing blank, a district under "District" with an
\* unparsable count, a blank district, a padded amount with an absent count
RowChen == Row(Chen, <<>>, <<"2","4">>, JStr(<<"1",",","0","0","0">>), JNum(3))
RowChenLower == Row(ChenLower, <<>>, <<"1","9">>, JStr(<<"5","0","0">>), JNum(2))
RowSal == Row(<<>>, Sal, <<"1","9">>, JNum(2000), JStr(<<"N","/","A">>))
RowBlank == Row(<<" ">>, <<>>, <<>>, JNum(700), JNull)
RowSalPadded == Row(<<"s","a","l">>, <<>>, <<>>, JStr(<<" ","3","0"," ">>), JUndefined)

\* an amount of 2^53 (9007199254740992 in the JSON text) and an amount of 1
RowChenBig == Row(Chen, <<>>, <<>>, JNum(TwoTo53), JNum(1))
RowChenOne == Row(<<"C","H","E","N">>, <<>>, <<>>, JNum(1), JNum(1))

\* a backend with rows for six of the seven financial years
Db(fin_year) ==
  IF fin_year = "2024-2025" THEN <<RowChen>>
  ELSE IF fin_year = "2023-2024" THEN <<RowSalPadded>>
  ELSE IF fin_year = "2022-2023" THEN <<>>
  ELSE IF fin_year = "2021-2022" THEN <<RowBlank, RowChen>>
  ELSE IF fin_year = "2020-2021" THEN <<RowSal>>
  ELSE IF fin_year = "2019-2020" THEN <<RowChenLower, RowBlank, RowSal>>
  ELSE IF fin_year = "2018-2019" THEN <<RowChenLower>>
  ELSE <<>>

\* a small backend: rows for two of the years only
SmallDb(fin_year) ==
  IF fin_year \in {"2024-2025", "2019-2020"} THEN Db(fin_year) ELSE <<>>

\* the rows of rows whose district contains the district_name of the query
RECURSIVE MatchingRows(_, _)
MatchingRows(rows, district_name) ==
  IF rows = <<>> THEN <<>>
  ELSE IF includes(toUpperCase(OrElse(Head(rows).district_name,
                                      Head(rows).District)), district_name)
    THEN <<Head(rows)>> \o MatchingRows(Tail(rows), district_name)
    ELSE MatchingRows(Tail(rows), district_name)

\* a JSON body: a bare array, an object holding the array under "data", or null
Body(shape, rows) == [shape |-> shape, rows |-> rows]

\* json?.data || json || []
UnwrapBody(json) ==
  IF json.shape = "object" THEN json.rows
  ELSE IF json.shape = "array" THEN json.rows
  ELSE <<>>

\* the bodies the small backend may answer a request with: it filters by the
\* district_name of the query, or it does not
SmallAnswers(req) ==
  {Body("array", SmallDb(req.fin_year)),
   Body("object", MatchingRows(SmallDb(req.fin_year), req.district_name))}

\* the bodies the full backend may answer a request with
DbAnswers(req) ==
  {Body("array", Db(req.fin_year)),
   Body("object", MatchingRows(Db(req.fin_year), req.district_name))}

\* any rows the API may return
AnyRows ==
  {RowChen, RowChenLower, RowSal, RowBlank, RowSalPadded, RowChenBig, RowChenOne}

\* the sequences of at most n of them
RowSeqs(n) == UNION {[1..k -> AnyRows] : k \in 0..n}

\* a backend that answers any rows for the newest year and none for the others
AnyAnswers(req) ==
  IF req.fin_year = "2024-2025"
    THEN {Body("array", rows) : rows \in RowSeqs(MaxLen)}
    ELSE {Body("array", <<>>)}

\* characters of the texts handed to toNumber: digits, the thousands
\* separator, a blank, a sign and a letter
NumberChars == {"1", "2", ",", " ", "-", "x"}

\* the texts of at most n of them
Texts(n) == UNION {[1..k -> NumberChars] : k \in 0..n}

\* the values toNumber may be called with: null, undefined, numbers (NaN is
\* one), and texts
NumberInputs ==
  {JNull, JUndefined, JNaN}
    \cup {JNum(k) : k \in (-2..3) \cup {12345}}
    \cup {JStr(text) : text \in Texts(MaxText)}
    \cup {JStr(<<"1","2",",","3","4","5">>), JStr(<<"N","/","A">>)}

\* values the user may select in the year selector
YearInputs == {"All", "2019-2020"}

\* values the user may leave in the district input
DistrictInputs == {<<>>, <<"c","h">>}

\* values a user who types "ch" letter by letter, or deletes it, leaves in it
BurstInputs == {<<>>, <<"c">>, <<"c","h">>}

\* address.state and address.state_district the reverse geocoder may answer
GeoInputs ==
  {<< <<"T","a","m","i","l"," ","N","a","d","u">>,
      <<"C","h","e","n"," ","D","i","s","t","r","i","c","t">> >>,
   << <<"K","e","r">>,
      <<"C","h","e","n"," ","D","i","s","t","r","i","c","t">> >>,
   << <<"K","e","r">>,
      <<"N","o","r","t","h"," ","D","i","s","t","r","i","c","t">> >>}

VARIABLES
  data,            \* useState: the displayed result set
  rawRecords,      \* useState: the raw rows of the last displayed cycle
  loading,         \* useState: the loading indicator
  year,            \* useState: the year selector
  stateName,       \* useState: the active state filter
  districtFilter,  \* useState: the district input
  insights,        \* useState: the displayed insights
  districtTimer,   \* useRef: id of the last debounce timer, 0 for null
  timers,          \* pending timeouts, each with the closure it will run
  nTimers,         \* timer ids handed out by setTimeout
  mounted,         \* the mount effects have run
  geo,             \* the startup location lookup
  cycles,          \* the calls of fetchData, in the order they started
  nCycles,         \* calls of fetchData so far
  shownBy,         \* the call of fetchData whose result is displayed, 0 for none
  served,          \* observer: the requests of the latest call and their answers
  arg,             \* a value handed to toNumber
  result           \* what toNumber returned for it, once it was called

vars ==
  <<data, rawRecords, loading, year, stateName, districtFilter, insights,
    districtTimer, timers, nTimers, mounted, geo, cycles, nCycles, shownBy,
    served, arg, result>>

\* toNumber on its own: the value it is called with and what it returned
probe == <<arg, result>>

\* toNumber was not called yet
NotCalled == [called |-> FALSE, n |-> Num(0)]

CycleIds == 1..MaxCycles

\* a call of fetchData that has not happened yet
IdleCycle ==
  [status |-> "idle", cause |-> "none",
   yearOverride |-> "All", districtOverride |-> <<>>,
   stateName |-> <<>>, districtFilter |-> <<>>,
   yi |-> 0, allRows |-> <<>>, issued |-> <<>>, inflight |-> 0,
   outcome |-> "none"]

\* the query of fetchForYear; an empty value stands for an omitted parameter
Request(sn, fin_year, districtOverride) ==
  [state_name |-> IF sn # <<>> THEN toUpperCase(sn) ELSE <<>>,
   fin_year |-> IF fin_year # "" /\ fin_year # "All" THEN fin_year ELSE "",
   district_name |-> IF districtOverride # <<>>
                       THEN toUpperCase(districtOverride) ELSE <<>>]

\* a variant that issues the requests of all the years at once
NewCycleAllAtOnce(cause, yearOverride, districtOverride, sn, df) ==
  [status |-> "running", cause |-> cause,
   yearOverride |-> yearOverride, districtOverride |-> districtOverride,
   stateName |-> sn, districtFilter |-> df,
   yi |-> 0, allRows |-> <<>>,
   issued |-> IF yearOverride = "All"
                THEN [i \in 1..Len(yearsToFetch) |->
                        Request(sn, yearsToFetch[i], districtOverride)]
                ELSE <<Request(sn, yearOverride, districtOverride)>>,
   inflight |-> 1,
   outcome |-> "none"]

\* fetchData up to its first await: the closure it runs in (sn, df), the
\* overrides after "??", and the first request on the wire
NewCycle(cause, yearOverride, districtOverride, sn, df) ==
  [status |-> "running", cause |-> cause,
   yearOverride |-> yearOverride, districtOverride |-> districtOverride,
   stateName |-> sn, districtFilter |-> df,
   yi |-> 0, allRows |-> <<>>,
   issued |-> <<Request(sn,
                        IF yearOverride = "All" THEN yearsToFetch[1]
                        ELSE yearOverride,
                        districtOverride)>>,
   inflight |-> 1,
   outcome |-> "none"]

\* the application after construction, before its first render
InitApp ==
  /\ data = <<>>
  /\ rawRecords = <<>>
  /\ loading = FALSE
  /\ year = InitialYear
  /\ stateName = InitialStateName
  /\ districtFilter = InitialDistrictFilter
  /\ insights = InitialInsights
  /\ districtTimer = 0
  /\ timers = {}
  /\ nTimers = 0
  /\ mounted = FALSE
  /\ geo = [status |-> "idle", state |-> <<>>, district |-> <<>>]
  /\ cycles = [c \in CycleIds |-> IdleCycle]
  /\ nCycles = 0
  /\ shownBy = 0
  /\ served = <<>>

Init ==
  /\ InitApp
  /\ arg = JNull
  /\ result = NotCalled

(***************************************************************************)
(* fetchData after an await: one action per resolved or failed request.    *)
(***************************************************************************)
\* a variant that starts over after a failed year
AccumulateOrReset(allRows, ok, rows) ==
  IF ok THEN allRows \o rows ELSE <<>>

\* "if (rows && rows.length) allRows.push(...rows)"; a failed year pushes nothing
Accumulate(allRows, ok, rows) ==
  IF ok /\ Len(rows) > 0 THEN allRows \o rows ELSE allRows

\* a variant without the try/catch around the request of a year
ThrownInAnyMode(cy, ok) == ~ok

\* does the failure of a request reach the catch block of fetchData?  Only in
\* single-year mode: the loop over the years catches it and goes on.
Thrown(cy, ok) == cy.yearOverride # "All" /\ ~ok

\* was this the last request of the call?
LastRequest(cy) ==
  cy.yearOverride # "All" \/ cy.yi + 1 = Len(yearsToFetch)

\* what is left of a call that returned: its arguments, the requests it
\* issued and how it ended; its locals and its closure are gone
Ended(cy, outcome) ==
  [IdleCycle EXCEPT !.status = "ended", !.cause = cy.cause,
                    !.yearOverride = cy.yearOverride,
                    !.districtOverride = cy.districtOverride,
                    !.yi = cy.yi + 1, !.issued = cy.issued,
                    !.outcome = outcome]

\* the loop goes on: the next year's request is issued
Continue(c, got) ==
  LET cy == cycles[c]
  IN /\ cycles' = [cycles EXCEPT ![c] =
                     [cy EXCEPT !.yi = cy.yi + 1,
                                !.allRows = got,
                                !.issued = Append(cy.issued,
                                   Request(cy.stateName,
                                           yearsToFetch[cy.yi + 2],
                                           cy.districtOverride))]]
     /\ UNCHANGED <<data, rawRecords, insights, shownBy, loading>>

\* a variant whose catch block clears what is displayed
FailAndClear(c) ==
  /\ cycles' = [cycles EXCEPT ![c] = Ended(cycles[c], "error")]
  /\ loading' = FALSE
  /\ data' = <<>>
  /\ insights' = computeInsights(<<>>)
  /\ UNCHANGED <<rawRecords, shownBy>>

\* a variant without the finally block
FailWithoutFinally(c) ==
  /\ cycles' = [cycles EXCEPT ![c] = Ended(cycles[c], "error")]
  /\ UNCHANGED <<data, rawRecords, insights, shownBy, loading>>

\* catch (err) { console.error } finally { setLoading(false) }
Fail(c) ==
  /\ cycles' = [cycles EXCEPT ![c] =
                  Ended(cycles[c], "error")]
  /\ loading' = FALSE
  /\ UNCHANGED <<data, rawRecords, insights, shownBy>>

\* a variant with a generation check: a call that is no longer the latest
\* drops its result
FinishUnlessSuperseded(c, got) ==
  LET cy == cycles[c]
      final == finalArray(got, cy.stateName, cy.districtFilter)
  IN IF c = nCycles
       THEN /\ rawRecords' = got
            /\ data' = final
            /\ insights' = computeInsights(final)
            /\ loading' = FALSE
            /\ shownBy' = c
            /\ cycles' = [cycles EXCEPT ![c] = Ended(cy, "shown")]
       ELSE /\ cycles' = [cycles EXCEPT ![c] = Ended(cy, "dropped")]
            /\ loading' = FALSE
            /\ UNCHANGED <<data, rawRecords, insights, shownBy>>

\* setRawRecords, aggregate, setData, setInsights, finally setLoading(false)
Finish(c, got) ==
  LET cy == cycles[c]
      final == finalArray(got, cy.stateName, cy.districtFilter)
  IN /\ rawRecords' = got
     /\ data' = final
     /\ insights' = computeInsights(final)
     /\ loading' = FALSE
     /\ shownBy' = c
     /\ cycles' = [cycles EXCEPT ![c] =
                     Ended(cy, "shown")]

\* the request in flight of call c resolves with the body json, or fails
Settle(c, ok, json) ==
  LET cy == cycles[c]
      got == Accumulate(cy.allRows, ok, IF ok THEN UnwrapBody(json) ELSE <<>>)
  IN /\ cy.status = "running"
     /\ cy.inflight = 1
     /\ IF Thrown(cy, ok) THEN Fail(c)
        ELSE IF LastRequest(cy) THEN Finish(c, got)
        ELSE Continue(c, got)
     /\ UNCHANGED <<year, stateName, districtFilter, districtTimer, timers,
                    nTimers, mounted, geo, nCycles>>

(***************************************************************************)
(* What starts a call of fetchData.                                        *)
(***************************************************************************)
\* fetchData(...) called: setLoading(true) and the first request
Start(cs, n, cyc) == [cs EXCEPT ![n + 1] = cyc]

\* the two mount effects: detectLocation() and the first fetchData()
Mount(supported) ==
  /\ ~mounted
  /\ nCycles < MaxCycles
  /\ mounted' = TRUE
  /\ geo' = [geo EXCEPT !.status = IF supported THEN "pending" ELSE "failed"]
  /\ cycles' = Start(cycles, nCycles,
                     NewCycle("mount", year, districtFilter,
                              stateName, districtFilter))
  /\ nCycles' = nCycles + 1
  /\ loading' = TRUE
  /\ UNCHANGED <<data, rawRecords, insights, shownBy, year, stateName,
                 districtFilter, districtTimer, timers, nTimers>>

\* onChange of the year selector, and the effect on [year, stateName] it fires
ChangeYear(y) ==
  /\ mounted
  /\ y # year
  /\ nCycles < MaxCycles
  /\ year' = y
  /\ cycles' = Start(cycles, nCycles,
                     NewCycle("year", y, districtFilter,
                              stateName, districtFilter))
  /\ nCycles' = nCycles + 1
  /\ loading' = TRUE
  /\ UNCHANGED <<data, rawRecords, insights, shownBy, stateName,
                 districtFilter, districtTimer, timers, nTimers, mounted, geo>>

\* onClick of the refresh button: fetchData({ yearOverride: year })
Refresh ==
  /\ mounted
  /\ nCycles < MaxCycles
  /\ cycles' = Start(cycles, nCycles,
                     NewCycle("refresh", year, districtFilter,
                              stateName, districtFilter))
  /\ nCycles' = nCycles + 1
  /\ loading' = TRUE
  /\ UNCHANGED <<data, rawRecords, insights, shownBy, year, stateName,
                 districtFilter, districtTimer, timers, nTimers, mounted, geo>>

\* a variant that leaves the timer pending
ClearTimeoutIgnored(ts, id) == ts

\* clearTimeout(id)
ClearTimeout(ts, id) == {t \in ts : t.id # id}

\* onChange of the district input: setDistrictFilter(v), then the debounce.
\* The timer keeps the closure of this render: districtFilter is still the
\* value before the edit.
TypeDistrict(v) ==
  /\ mounted
  /\ v # districtFilter
  /\ nTimers < MaxKeys
  /\ districtFilter' = v
  /\ timers' = (IF districtTimer # 0 THEN ClearTimeout(timers, districtTimer)
                ELSE timers)
               \cup {[id |-> nTimers + 1, v |-> v, year |-> year,
                      stateName |-> stateName,
                      districtFilter |-> districtFilter]}
  /\ districtTimer' = nTimers + 1
  /\ nTimers' = nTimers + 1
  /\ UNCHANGED <<data, rawRecords, insights, shownBy, loading, year,
                 stateName, mounted, geo, cycles, nCycles>>

\* the 450 ms are over: fetchData({ yearOverride: year, districtOverride: v })
TimerFire(t) ==
  /\ t \in timers
  /\ nCycles < MaxCycles
  /\ timers' = timers \ {t}
  /\ cycles' = Start(cycles, nCycles,
                     NewCycle("timer", t.year, t.v, t.stateName,
                              t.districtFilter))
  /\ nCycles' = nCycles + 1
  /\ loading' = TRUE
  /\ UNCHANGED <<data, rawRecords, insights, shownBy, year, stateName,
                 districtFilter, districtTimer, nTimers, mounted, geo>>

(***************************************************************************)
(* detectLocation: the callback of getCurrentPosition.                     *)
(***************************************************************************)
DistrictWord == <<"d","i","s","t","r","i","c","t">>

DirectionWords ==
  << <<"n","o","r","t","h">>, <<"s","o","u","t","h">>, <<"e","a","s","t">>,
     <<"w","e","s","t">>, <<"d","i","v","i","s","i","o","n">> >>

\* .replace(/district/gi, "").replace(/north|.../gi, "").trim().toUpperCase()
cleanDistrict(d) ==
  toUpperCase(trim(ReplaceAllI(ReplaceAllI(d, <<DistrictWord>>),
                               DirectionWords)))

\* the reverse geocoder answered with state st and district d.  fetchData is
\* the one of the first render (the effect has no dependencies): it runs with
\* the initial year, state and district filter.  Then the render after
\* setStateName fires the effect on [year, stateName] when the state changed.
GeoResolve(st, d) ==
  LET stateNameDetected == toUpperCase(st)
      districtNameDetected == cleanDistrict(d)
      direct == districtNameDetected # <<>>
      sn == IF stateNameDetected # <<>> THEN stateNameDetected ELSE stateName
      df == IF direct THEN districtNameDetected ELSE districtFilter
      effect == sn # stateName
      n1 == nCycles + (IF direct THEN 1 ELSE 0)
      n2 == n1 + (IF effect THEN 1 ELSE 0)
      cs1 == IF direct
               THEN Start(cycles, nCycles,
                          NewCycle("geo", InitialYear, districtNameDetected,
                                   InitialStateName, InitialDistrictFilter))
               ELSE cycles
      cs2 == IF effect
               THEN Start(cs1, n1, NewCycle("state", year, df, sn, df))
               ELSE cs1
  IN /\ geo.status = "pending"
     /\ n2 <= MaxCycles
     /\ geo' = [status |-> "detected", state |-> stateNameDetected,
                district |-> districtNameDetected]
     /\ stateName' = sn
     /\ districtFilter' = df
     /\ cycles' = cs2
     /\ nCycles' = n2
     /\ loading' = IF n2 > nCycles THEN TRUE ELSE loading
     /\ UNCHANGED <<data, rawRecords, insights, shownBy, year, districtTimer,
                    timers, nTimers, mounted>>

\* no position, or the reverse geocoder failed: nothing changes
GeoFail ==
  /\ geo.status = "pending"
  /\ geo' = [geo EXCEPT !.status = "failed"]
  /\ UNCHANGED <<data, rawRecords, insights, shownBy, loading, year,
                 stateName, districtFilter, districtTimer, timers, nTimers,
                 mounted, cycles, nCycles>>

(***************************************************************************)
(* Specifications.  Spec is the whole application.  The year selector with *)
(* the refresh button, the district input and the location lookup act on   *)
(* fetchData independently of each other, and their product with three     *)
(* overlapping seven-request calls is large, so each property is checked   *)
(* under the specification of the controls it is about: SpecYear, SpecType *)
(* or SpecGeo.  SpecObs runs one call at a time against a backend with     *)
(* rows for every year and records each answer; SpecAgg lets the backend   *)
(* answer any rows; SpecBurst types into the district input letter by      *)
(* letter; SpecLive adds the fairness of the answers, against a backend    *)
(* without rows; SpecNum calls toNumber on its own.                        *)
(***************************************************************************)
\* the request in flight of call c
InFlight(c) == cycles[c].issued[Len(cycles[c].issued)]

\* the small backend answers the request in flight of call c, or fails it
RespondTo(c) ==
  /\ cycles[c].status = "running"
  /\ \/ \E json \in SmallAnswers(InFlight(c)) : Settle(c, TRUE, json)
     \/ Settle(c, FALSE, Body("null", <<>>))

\* the same, for some call
Respond == \E c \in CycleIds : RespondTo(c)

\* the application with its user, the reverse geocoder and the small backend
Next ==
  \/ \E supported \in BOOLEAN : Mount(supported) /\ UNCHANGED <<served, probe>>
  \/ \E y \in YearInputs : ChangeYear(y) /\ UNCHANGED <<served, probe>>
  \/ Refresh /\ UNCHANGED <<served, probe>>
  \/ \E v \in DistrictInputs : TypeDistrict(v) /\ UNCHANGED <<served, probe>>
  \/ \E t \in timers : TimerFire(t) /\ UNCHANGED <<served, probe>>
  \/ \E g \in GeoInputs : GeoResolve(g[1], g[2]) /\ UNCHANGED <<served, probe>>
  \/ GeoFail /\ UNCHANGED <<served, probe>>
  \/ Respond /\ UNCHANGED <<served, probe>>

Spec == Init /\ [][Next]_vars

\* the year selector and the refresh button only
NextYear ==
  \/ Mount(FALSE) /\ UNCHANGED <<served, probe>>
  \/ \E y \in YearInputs : ChangeYear(y) /\ UNCHANGED <<served, probe>>
  \/ Refresh /\ UNCHANGED <<served, probe>>
  \/ Respond /\ UNCHANGED <<served, probe>>

SpecYear == Init /\ [][NextYear]_vars

\* a backend without rows answers the request in flight of call c with an
\* empty array, or fails it
RespondEmptyTo(c) ==
  /\ cycles[c].status = "running"
  /\ \/ Settle(c, TRUE, Body("array", <<>>))
     \/ Settle(c, FALSE, Body("null", <<>>))
  /\ UNCHANGED <<served, probe>>

\* the year selector and the refresh button against a backend without rows
NextLive ==
  \/ Mount(FALSE) /\ UNCHANGED <<served, probe>>
  \/ \E y \in YearInputs : ChangeYear(y) /\ UNCHANGED <<served, probe>>
  \/ Refresh /\ UNCHANGED <<served, probe>>
  \/ \E c \in CycleIds : RespondEmptyTo(c)

\* every request issued is eventually answered or fails
SpecLive ==
  /\ Init
  /\ [][NextLive]_vars
  /\ \A c \in CycleIds : WF_vars(RespondEmptyTo(c))

\* the district input only
NextType ==
  \/ Mount(FALSE) /\ UNCHANGED <<served, probe>>
  \/ \E v \in DistrictInputs : TypeDistrict(v) /\ UNCHANGED <<served, probe>>
  \/ \E t \in timers : TimerFire(t) /\ UNCHANGED <<served, probe>>
  \/ Respond /\ UNCHANGED <<served, probe>>

SpecType == Init /\ [][NextType]_vars

\* the startup location lookup only
NextGeo ==
  \/ \E supported \in BOOLEAN : Mount(supported) /\ UNCHANGED <<served, probe>>
  \/ \E g \in GeoInputs : GeoResolve(g[1], g[2]) /\ UNCHANGED <<served, probe>>
  \/ GeoFail /\ UNCHANGED <<served, probe>>
  \/ Respond /\ UNCHANGED <<served, probe>>

SpecGeo == Init /\ [][NextGeo]_vars
\* no call of fetchData is running
Quiet == \A c \in CycleIds : cycles[c].status # "running"

\* the observer's record of an answer
Answer(req, ok, rows) == [req |-> req, ok |-> ok, rows |-> rows]

\* the full backend answers the request in flight, and the observer notes it
RespondObserved ==
  \E c \in CycleIds :
    /\ cycles[c].status = "running"
    /\ \/ \E json \in DbAnswers(InFlight(c)) :
            /\ Settle(c, TRUE, json)
            /\ served' = Append(served, Answer(InFlight(c), TRUE, json.rows))
            /\ UNCHANGED probe
       \/ /\ Settle(c, FALSE, Body("null", <<>>))
          /\ served' = Append(served, Answer(InFlight(c), FALSE, <<>>))
          /\ UNCHANGED probe

\* one call at a time against the full backend, each answer observed
NextObs ==
  \/ Mount(FALSE) /\ served' = <<>> /\ UNCHANGED probe
  \/ \E y \in YearInputs : Quiet /\ ChangeYear(y) /\ served' = <<>> /\ UNCHANGED probe
  \/ Quiet /\ Refresh /\ served' = <<>> /\ UNCHANGED probe
  \/ RespondObserved

SpecObs == Init /\ [][NextObs]_vars

\* a backend that answers any rows
RespondAny ==
  \E c \in CycleIds :
    /\ cycles[c].status = "running"
    /\ \E json \in AnyAnswers(InFlight(c)) : Settle(c, TRUE, json)

\* the first call against a backend that answers any rows
NextAgg ==
  \/ Mount(FALSE) /\ UNCHANGED <<served, probe>>
  \/ RespondAny /\ UNCHANGED <<served, probe>>

SpecAgg == Init /\ [][NextAgg]_vars

\* the small backend answers the request in flight of some call with all the
\* rows of the year
RespondAll ==
  \E c \in CycleIds :
    /\ cycles[c].status = "running"
    /\ Settle(c, TRUE, Body("array", SmallDb(InFlight(c).fin_year)))

\* the district input typed letter by letter, against a backend that answers
NextBurst ==
  \/ Mount(FALSE) /\ UNCHANGED <<served, probe>>
  \/ \E v \in BurstInputs : TypeDistrict(v) /\ UNCHANGED <<served, probe>>
  \/ \E t \in timers : TimerFire(t) /\ UNCHANGED <<served, probe>>
  \/ RespondAll /\ UNCHANGED <<served, probe>>

SpecBurst == Init /\ [][NextBurst]_vars

\* toNumber(arg) is called and returns
Convert ==
  /\ ~result.called
  /\ result' = [called |-> TRUE, n |-> toNumber(arg)]
  /\ UNCHANGED <<data, rawRecords, loading, year, stateName, districtFilter,
                 insights, districtTimer, timers, nTimers, mounted, geo,
                 cycles, nCycles, shownBy, served, arg>>

\* toNumber is about to be called with any of the values
InitNum ==
  /\ InitApp
  /\ arg \in NumberInputs
  /\ result = NotCalled

NextNum == Convert

SpecNum == InitNum /\ [][NextNum]_vars

(***************************************************************************)
(* Properties.                                                             *)
(***************************************************************************)
\* the latest call of fetchData (the one the observer follows)
Latest == cycles[nCycles]

\* the rows the observer saw returned for year y: none when the request
\* failed or was not answered
RowsServedFor(y) ==
  IF \E i \in 1..Len(served) : served[i].req.fin_year = y /\ served[i].ok
    THEN served[CHOOSE i \in 1..Len(served) :
                  served[i].req.fin_year = y /\ served[i].ok].rows
    ELSE <<>>

RECURSIVE ConcatServed(_)
ConcatServed(years) ==
  IF years = <<>> THEN <<>>
  ELSE RowsServedFor(Head(years)) \o ConcatServed(Tail(years))

\* the years whose request the observer saw fail
FailedYears == {served[i].req.fin_year : i \in {j \in 1..Len(served) : ~served[j].ok}}

\* C1: in all-years mode, whatever subset of the seven requests fails, the
\* call goes on to the end and aggregates exactly the rows returned by the
\* years that did not fail, concatenated in the newest-first year order.
C1_PartialResults ==
  (nCycles > 0 /\ Latest.yearOverride = "All") =>
    /\ Latest.status = "running" =>
         /\ Len(served) < Len(yearsToFetch)
         /\ Latest.allRows = ConcatServed(yearsToFetch)
    /\ Latest.status = "ended" =>
         /\ Len(served) = Len(yearsToFetch)
         /\ Latest.outcome = "shown"
         /\ shownBy = nCycles
         /\ rawRecords = ConcatServed(yearsToFetch)

\* C1 witness: an all-years call has ended with one failed year whose rows
\* are missing and the rows of the six other years displayed
C1_Witness ==
  /\ nCycles > 0
  /\ Latest.yearOverride = "All"
  /\ Latest.status = "ended"
  /\ FailedYears = {"2021-2022"}
  /\ rawRecords = Db("2024-2025") \o Db("2023-2024") \o Db("2020-2021")
                    \o Db("2019-2020") \o Db("2018-2019")

\* C3: when all seven requests of an all-years call fail, the call does not
\* fail: it displays the empty result set and the insights of an empty one.
C3_TotalFailure ==
  (/\ nCycles > 0
   /\ Latest.yearOverride = "All"
   /\ Latest.status = "ended"
   /\ \A i \in 1..Len(served) : ~served[i].ok) =>
    /\ Len(served) = Len(yearsToFetch)
    /\ Latest.outcome = "shown"
    /\ shownBy = nCycles
    /\ data = <<>>
    /\ insights.totalHouseholds = 0
    /\ insights.totalExpenditure = 0
    /\ insights.avgHouseholds = 0
    /\ insights.topDistrict = NotAvailable
    /\ insights.lowDistrict = NotAvailable

\* C3 witness: the second call, an all-years one, has ended with all seven
\* requests failed, after a first call that displayed its result
C3_Witness ==
  /\ nCycles = 2
  /\ cycles[1].outcome = "shown"
  /\ Latest.yearOverride = "All"
  /\ Latest.status = "ended"
  /\ Len(served) = Len(yearsToFetch)
  /\ \A i \in 1..Len(served) : ~served[i].ok
  /\ data = <<>>

\* C2: when the one request of a single-year call fails, the call ends, the
\* displayed result set and insights stay as they were, and loading is false;
\* starting a call does not touch them either.
C2_SingleYearFailure ==
  [][/\ nCycles' = nCycles + 1 => (data' = data /\ insights' = insights)
     /\ (/\ nCycles > 0
         /\ nCycles' = nCycles
         /\ Latest.status = "running"
         /\ Latest.yearOverride # "All"
         /\ Len(served') = Len(served) + 1
         /\ ~served'[Len(served')].ok) =>
          /\ cycles'[nCycles].status = "ended"
          /\ data' = data
          /\ insights' = insights
          /\ loading' = FALSE]_vars

\* C2 witness: a single-year call has ended on its failed request while rows
\* of an earlier call are displayed
C2_Witness ==
  /\ nCycles > 1
  /\ Latest.status = "ended"
  /\ Latest.yearOverride # "All"
  /\ served # <<>>
  /\ ~served[1].ok
  /\ Len(data) = 2
  /\ insights.topDistrict # NotAvailable
  /\ loading = FALSE

\* the seven financial years, newest first
SevenYears ==
  <<"2024-2025", "2023-2024", "2022-2023", "2021-2022", "2020-2021",
    "2019-2020", "2018-2019">>

\* C8: an all-years call issues its requests one per financial year, newest
\* first, each with its own label, the next one only when the previous one
\* was answered (at most one in flight) and seven in all; a single-year call
\* issues one request, for its year.
C8_Requests ==
  \A c \in CycleIds :
    cycles[c].status # "idle" =>
      LET cy == cycles[c]
          n == Len(cy.issued)
      IN /\ cy.yearOverride = "All" =>
              /\ n <= 7
              /\ \A i \in 1..n : cy.issued[i].fin_year = SevenYears[i]
              /\ cy.status = "ended" => n = 7
         /\ cy.yearOverride # "All" =>
              /\ n = 1
              /\ cy.issued[1].fin_year = cy.yearOverride
         /\ cy.status = "running" => n = cy.yi + 1
         /\ cy.status = "ended" => n = cy.yi

\* C8 witness: an all-years call has ended after seven requests and a
\* single-year call after one
C8_Witness ==
  /\ \E c \in CycleIds :
       /\ cycles[c].status = "ended"
       /\ cycles[c].yearOverride = "All"
       /\ Len(cycles[c].issued) = 7
  /\ \E c \in CycleIds :
       /\ cycles[c].status = "ended"
       /\ cycles[c].yearOverride # "All"
       /\ Len(cycles[c].issued) = 1

\* C9: a running call is not cancelled or changed by anything but the answer
\* to its own request, and when its last request is answered without reaching
\* the catch block it displays its result, whatever calls started after it.
C9_NoCancellation ==
  [][\A c \in CycleIds :
       cycles[c].status = "running" =>
         \/ cycles'[c] = cycles[c]
         \/ /\ nCycles' = nCycles
            /\ cycles'[c].yi = cycles[c].yi + 1
            /\ cycles'[c].status \in {"running", "ended"}
            /\ cycles'[c].status = "ended" =>
                 \/ cycles'[c].outcome = "error" /\ cycles[c].yearOverride # "All"
                 \/ cycles'[c].outcome = "shown" /\ shownBy' = c]_vars

\* C9 witness: call b started after call a with another year and displayed
\* its result; then a displayed its own, which is what is on screen while the
\* year selector shows the year of b
C9_Witness ==
  \E a, b \in CycleIds :
    /\ a < b
    /\ b = nCycles
    /\ cycles[b].outcome = "shown"
    /\ shownBy = a
    /\ cycles[a].yearOverride # cycles[b].yearOverride
    /\ year = cycles[b].yearOverride
    /\ data = finalArray(rawRecords, InitialStateName, <<>>)
    /\ rawRecords # Db(year)

\* the sum of measure f over the first n aggregates
RECURSIVE TotalOf(_, _, _)
TotalOf(aggs, f, n) ==
  IF n = 0 THEN 0 ELSE Plus(TotalOf(aggs, f, n - 1), aggs[n][f])

\* r is x rounded to the nearest integer, halves upwards, for x = num / den
IsRounded(r, num, den) ==
  /\ 2 * r * den - den <= 2 * num
  /\ 2 * num < 2 * r * den + den

\* C7: the displayed insights are those of the displayed result set: the
\* two totals, the rounded average (0 when empty), the display names of the
\* first and of the last aggregate ("N/A" when empty).
C7_InsightsMatchData ==
  LET count == Len(data)
  IN /\ insights.totalHouseholds = TotalOf(data, "Total_Households_Worked", count)
     /\ insights.totalExpenditure = TotalOf(data, "Total_Exp", count)
     /\ count = 0 =>
          /\ insights.avgHouseholds = 0
          /\ insights.topDistrict = NotAvailable
          /\ insights.lowDistrict = NotAvailable
     /\ count > 0 =>
          /\ IsRounded(insights.avgHouseholds, insights.totalHouseholds, count)
          /\ insights.topDistrict = data[1].district_display
          /\ insights.lowDistrict = data[count].district_display

\* C7 witness: two aggregates with an average of 2.5 households displayed as
\* 3, by a call that another call overlapped, after a call that failed
C7_Witness ==
  /\ Len(data) = 2
  /\ insights.totalHouseholds = 5
  /\ insights.avgHouseholds = 3
  /\ insights.topDistrict = Sal
  /\ shownBy # 0
  /\ shownBy < nCycles
  /\ \E c \in CycleIds : cycles[c].outcome = "error"

\* C6: the displayed result set is in descending order of Total_Exp.
C6_SortedByTotalExp ==
  \A i \in 1..(Len(data) - 1) : data[i].Total_Exp >= data[i + 1].Total_Exp

\* C6 witness: a call started by the district input displays two districts,
\* the one met second in the rows first
C6_Witness ==
  /\ shownBy # 0
  /\ cycles[shownBy].cause = "timer"
  /\ Len(data) = 2
  /\ data[1].district_name = toUpperCase(Sal)
  /\ data[1].Total_Exp > data[2].Total_Exp
  /\ Len(rawRecords) > 2
  /\ rawRecords[1].district_name = Chen

\* C5 (as claimed): what a call started for a non-empty district substring
\* displays holds only aggregates whose key contains that substring, trimmed
\* and in upper case.
C5_OnlyMatchingDistricts ==
  (shownBy # 0 /\ trim(cycles[shownBy].districtOverride) # <<>>) =>
    \A i \in 1..Len(data) :
      includes(data[i].district_name,
               toUpperCase(trim(cycles[shownBy].districtOverride)))

\* the calls of fetchData that the location lookup caused: the one it makes
\* itself and the one of the effect that setStateName fires
CausedByDetection ==
  {c \in CycleIds : cycles[c].cause \in {"geo", "state"}}

\* C10 (as claimed): once the lookup has detected a state and a district, the
\* two filters hold the detected values and the detection has started exactly
\* one call of fetchData.
C10_OneCyclePerDetection ==
  (geo.status = "detected" /\ geo.state # <<>> /\ geo.district # <<>>) =>
    /\ stateName = geo.state
    /\ districtFilter = geo.district
    /\ Cardinality(CausedByDetection) = 1

\* the district key of a raw row
KeyOf(r) ==
  toUpperCase(trim(IF r.district_name # <<>> THEN r.district_name ELSE r.District))

\* the sum of the normalized measure m over the first n rows with key k, in
\* the order of the rows
RECURSIVE MeasureOfKey(_, _, _, _)
MeasureOfKey(rows, k, m, n) ==
  IF n = 0 THEN 0
  ELSE Plus(MeasureOfKey(rows, k, m, n - 1),
            IF KeyOf(rows[n]) = k THEN IntOf(toNumber(rows[n][m])) ELSE 0)

\* C4: the displayed result set of a call without district filter has one
\* aggregate per non-empty district key of the raw rows, none for an empty
\* key, and each measure of an aggregate is the sum of the normalized
\* measure over the rows of its key.
C4_OneAggregatePerDistrict ==
  LET keys == {KeyOf(rawRecords[j]) : j \in 1..Len(rawRecords)} \ {<<>>}
  IN /\ \A k \in keys :
          Cardinality({i \in 1..Len(data) : data[i].district_name = k}) = 1
     /\ \A i \in 1..Len(data) :
          /\ data[i].district_name \in keys
          /\ \A m \in Measures :
               data[i][m] = MeasureOfKey(rawRecords, data[i].district_name, m,
                                        Len(rawRecords))

\* C4 witness: the rows "Chen" 1,000 and "chen " 500, with a blank district
\* between them, displayed as the single aggregate CHEN with Total_Exp 1500
C4_Witness ==
  /\ rawRecords = <<RowChen, RowBlank, RowChenLower>>
  /\ Len(data) = 1
  /\ data[1].district_name = <<"C","H","E","N">>
  /\ data[1].Total_Exp = 1500
  /\ data[1].Total_Households_Worked = 5

\* the calls of fetchData that a debounce timer started
TimerCycles == {c \in CycleIds : cycles[c].cause = "timer"}

\* C11: at most one debounce timer is pending, and it is the one of the last
\* edit of the district input; its expiry starts one call of fetchData whose
\* request carries the value of that last edit (in upper case, the parameter
\* omitted when the value is empty) and leaves no timer pending, so the
\* edits made since the previous expiry start one call in all.
C11_Debounce ==
  /\ [](/\ Cardinality(timers) <= 1
        /\ \A t \in timers :
             /\ t.id = districtTimer
             /\ t.id = nTimers
             /\ t.v = districtFilter)
  /\ [][(\E c \in CycleIds : cycles[c].cause # "timer" /\ cycles'[c].cause = "timer") =>
         /\ nCycles' = nCycles + 1
         /\ Cardinality(TimerCycles') = Cardinality(TimerCycles) + 1
         /\ timers # {}
         /\ timers' = {}
         /\ cycles'[nCycles'].districtOverride = districtFilter
         /\ cycles'[nCycles'].issued =
              <<Request(stateName, IF year = "All" THEN yearsToFetch[1] ELSE year,
                        districtFilter)>>
         /\ cycles'[nCycles'].issued[1].district_name = toUpperCase(districtFilter)]_vars

\* C11 witness: two edits without an expiry between them, "c" then "ch",
\* then the expiry: one call started by a timer, its request asking for CH,
\* and no timer pending
C11_Witness ==
  /\ nTimers = 2
  /\ timers = {}
  /\ districtFilter = <<"c","h">>
  /\ Cardinality(TimerCycles) = 1
  /\ \E c \in TimerCycles :
       /\ cycles[c].districtOverride = <<"c","h">>
       /\ cycles[c].issued[1].district_name = <<"C","H">>

Orders(n) ==
  {p \in [1..n -> 1..n] : \A i, j \in 1..n : p[i] = p[j] => i = j}

\* the aggregates of the rows taken in the order p
AggregatesInOrder(rows, p) ==
  grouped(filtered(normalized([i \in 1..Len(rows) |-> rows[p[i]]], stateName)))

\* the aggregates a and b have the same district keys and, key by key, the
\* same seven measures
SameKeysAndMeasures(a, b) ==
  /\ {a[i].district_name : i \in 1..Len(a)} = {b[j].district_name : j \in 1..Len(b)}
  /\ \A i \in 1..Len(a) : \A j \in 1..Len(b) :
       a[i].district_name = b[j].district_name =>
         \A m \in Measures : a[i][m] = b[j][m]

\* C13 (as claimed): whatever the order of the raw rows, the district keys
\* and the seven summed measures of every aggregate are the same.
C13_OrderIndependent ==
  (shownBy # 0 /\ districtFilter = <<>>) =>
    \A p \in Orders(Len(rawRecords)) :
      SameKeysAndMeasures(data, AggregatesInOrder(rawRecords, p))

\* the magnitude of a number
Abs(k) == IF k < 0 THEN 0 - k ELSE k

\* the sum of the magnitudes of measure m over the first n rows
RECURSIVE Magnitude(_, _, _)
Magnitude(rows, m, n) ==
  IF n = 0 THEN 0
  ELSE Magnitude(rows, m, n - 1) + Abs(IntOf(toNumber(rows[n][m])))

\* every sum of measures of the rows is an integer below 2^53 in magnitude,
\* which double addition computes exactly
ExactSums(rows) ==
  \A m \in Measures : Magnitude(rows, m, Len(rows)) < TwoTo53

\* C13 (amended): the district keys are the same whatever the order of the
\* raw rows, and so are the seven summed measures of every aggregate when the
\* measures are integers whose sums stay below 2^53 in magnitude.
C13_OrderIndependentWhenExact ==
  (shownBy # 0 /\ districtFilter = <<>>) =>
    \A p \in Orders(Len(rawRecords)) :
      LET other == AggregatesInOrder(rawRecords, p)
      IN /\ {data[i].district_name : i \in 1..Len(data)}
              = {other[j].district_name : j \in 1..Len(other)}
         /\ ExactSums(rawRecords) => SameKeysAndMeasures(data, other)

\* C13 witness: three rows of two districts, the two rows of CHEN apart and
\* in another case, displayed as CHEN 1500 and SAL 2000
C13_Witness ==
  /\ shownBy # 0
  /\ rawRecords = <<RowChenLower, RowSal, RowChen>>
  /\ ExactSums(rawRecords)
  /\ Len(data) = 2
  /\ data[1].district_name = <<"S","A","L">>
  /\ data[2].Total_Exp = 1500
  /\ data[2].Wages = 1500

\* C14: when every request issued is eventually answered or fails, every
\* call of fetchData that started eventually ends, in all-years and in
\* single-year mode and whichever requests fail, and the step that ends a
\* call sets loading to false.
C14_EveryCycleEnds ==
  /\ \A c \in CycleIds :
       (cycles[c].status = "running") ~> (cycles[c].status = "ended")
  /\ [][\A c \in CycleIds :
          (cycles[c].status = "running" /\ cycles'[c].status = "ended") =>
            loading' = FALSE]_vars

\* C14 witness: every call has ended and loading is false: an all-years call
\* that displayed, a single-year call that displayed and a single-year call
\* that failed
C14_Witness ==
  /\ nCycles = MaxCycles
  /\ \A c \in CycleIds : cycles[c].status = "ended"
  /\ loading = FALSE
  /\ \E c \in CycleIds :
       /\ cycles[c].yearOverride = "All"
       /\ cycles[c].outcome = "shown"
  /\ \E c \in CycleIds :
       /\ cycles[c].yearOverride # "All"
       /\ cycles[c].outcome = "shown"
  /\ \E c \in CycleIds :
       /\ cycles[c].yearOverride # "All"
       /\ cycles[c].outcome = "error"

\* C15 (as claimed): while a call of fetchData has started and not ended,
\* loading is true, also when calls overlap.
C15_LoadingWhileRunning ==
  (\E c \in CycleIds : cycles[c].status = "running") => loading = TRUE

====
